---- MODULE Spec2Model ----
(***************************************************************************)
(* Poseidon permutation, 2:1 hash and their R1CS gadgets                   *)
(* (src/src/gadget_poseidon.rs) as a state machine.                        *)
(*                                                                         *)
(* The machine follows the harness of tests::poseidon_perm and             *)
(* tests::poseidon_hash: PoseidonParams::new from the static tables, the   *)
(* native evaluation, the gadget on a Prover, the gadget on a Verifier.    *)
(* Scalars are the elements of the prime field of order P; a linear        *)
(* combination is its coefficient vector over the wires of the constraint  *)
(* system (wire 0 is the constant one).                                    *)
(***************************************************************************)
EXTENDS Integers, Sequences, FiniteSets, TLC

VARIABLES
    tables,   \* the static tables ROUND_CONSTS and MDS_ENTRIES (hex strings)
    args,     \* the arguments of PoseidonParams::new
    params,   \* the PoseidonParams object, once built
    pc,       \* position of the harness
    scn,      \* what the harness runs: call, sbox_type, inputs, claimed output
    nat,      \* the native engine (Poseidon_permutation)
    circ,     \* the circuit engine (Poseidon_permutation_constraints)
    cs,       \* the constraint system the circuit engine writes to
    runs,     \* finished gadget runs: the Prover's, then the Verifier's
    forge,    \* the S-box witnesses a dishonest Prover may choose: budget, used
    fault     \* how the constraint system given to the gadget behaves

vars == <<tables, args, params, pc, scn, nat, circ, cs, runs, forge, fault>>

(***************************************************************************)
(* Bounds of the model.                                                    *)
(***************************************************************************)
MaxFullBeginning == 1
MaxFullEnd == 1
MaxPartial == 2
MinRoundConsts == 5
MaxInput == 1
MaxForge == 1
AdvMaxRounds == 1
MaxFaultAt == 3

(***************************************************************************)
(* Scalar: the prime field.  Inversion is exponentiation by P - 2, which   *)
(* is how Scalar::invert computes it; it maps 0 to 0.                      *)
(***************************************************************************)
P == 7
F == 0 .. (P - 1)

Add(a, b) == (a + b) % P
Sub(a, b) == (a + P - b) % P
Mul(a, b) == (a * b) % P

RECURSIVE Pow(_, _)
Pow(x, n) == IF n = 0 THEN 1 ELSE Mul(x, Pow(x, n - 1))

Invert(x) == Pow(x, P - 2)

(***************************************************************************)
(* The static tables.  An entry is a hexadecimal string, here two digits;  *)
(* get_scalar_from_hex decodes it to a Scalar (reduced mod the order).     *)
(***************************************************************************)
ToHex(b) == <<b \div 16, b % 16>>
get_scalar_from_hex(h) == (16 * h[1] + h[2]) % P

RoundConstByte(seed, i) == (11 * i + 5 * seed + 3) % 256
MdsByte(seed, i, j) == (8 + 3 * i + 5 * j + i * j + seed) % 256

\* ROUND_CONSTS with len entries; MDS_ENTRIES with rows rows, each of rows
\* entries except row shortRow (when not 0), which has one entry less.
MakeTables(seed, len, rows, shortRow) ==
    [ROUND_CONSTS |-> [i \in 1 .. len |-> ToHex(RoundConstByte(seed, i - 1))],
     MDS_ENTRIES |->
        [i \in 1 .. rows |->
            [j \in 1 .. (IF i = shortRow THEN rows - 1 ELSE rows) |->
                ToHex(MdsByte(seed, i - 1, j - 1))]]]

TableWidths == {2, 4, 6}
ArgWidths == {2, 4, 6}
Seeds == {0, 1}
ShortRows == {0, 1}
RoundConstLens ==
    {MinRoundConsts, 6 * (MaxFullBeginning + MaxPartial + MaxFullEnd)}

(***************************************************************************)
(* PoseidonParams::new and its two loaders.  A loader that panics yields   *)
(* [ok |-> FALSE]; so does new, which then returns no object.              *)
(***************************************************************************)
Panicked == [ok |-> FALSE]

\* The same with cap = total_rounds: one key per round.
gen_round_keys_per_round(t, width, total_rounds) ==
    LET cap == total_rounds IN
    IF Len(t.ROUND_CONSTS) < cap THEN Panicked
    ELSE [ok |-> TRUE,
          val |-> [i \in 1 .. cap |-> get_scalar_from_hex(t.ROUND_CONSTS[i])]]

gen_round_keys(t, width, total_rounds) ==
    LET cap == total_rounds * width IN
    IF Len(t.ROUND_CONSTS) < cap THEN Panicked
    ELSE [ok |-> TRUE,
          val |-> [i \in 1 .. cap |-> get_scalar_from_hex(t.ROUND_CONSTS[i])]]

gen_MDS_matrix(t, width) ==
    IF Len(t.MDS_ENTRIES) # width THEN Panicked
    ELSE IF \E i \in 1 .. width : Len(t.MDS_ENTRIES[i]) # width THEN Panicked
    ELSE [ok |-> TRUE,
          val |-> [i \in 1 .. width |->
                    [j \in 1 .. width |-> get_scalar_from_hex(t.MDS_ENTRIES[i][j])]]]

PoseidonParams_new(t, width, full_rounds_beginning, full_rounds_end, partial_rounds) ==
    LET total_rounds == full_rounds_beginning + partial_rounds + full_rounds_end
        round_keys == gen_round_keys(t, width, total_rounds)
        matrix_2 == gen_MDS_matrix(t, width)
    IN  IF ~round_keys.ok \/ ~matrix_2.ok THEN Panicked
        ELSE [ok |-> TRUE,
              width |-> width,
              full_rounds_beginning |-> full_rounds_beginning,
              full_rounds_end |-> full_rounds_end,
              partial_rounds |-> partial_rounds,
              round_keys |-> round_keys.val,
              MDS_matrix |-> matrix_2.val]

TotalRounds(p) == p.full_rounds_beginning + p.partial_rounds + p.full_rounds_end

\* The S-box applications of one permutation: every position of a full round,
\* one position of a partial round.
SboxCount(p) ==
    p.width * (p.full_rounds_beginning + p.full_rounds_end) + p.partial_rounds

(***************************************************************************)
(* SboxType and its native evaluation.                                     *)
(***************************************************************************)
SboxType == {"Cube", "Inverse"}

apply_sbox(sbox, elem) ==
    IF sbox = "Cube" THEN Mul(Mul(elem, elem), elem) ELSE Invert(elem)

(***************************************************************************)
(* Linear combinations and the constraint system.  Wire 0 is the constant  *)
(* one, wires 1 .. ncommit the committed variables, and multiplier gate g  *)
(* (g = 1, 2, ...) owns the wires GateL(c, g), GateR(c, g), GateO(c, g).   *)
(* The witness wit assigns the wires allocated so far (a Prover's only).   *)
(***************************************************************************)
None == [some |-> FALSE]
Some(x) == [some |-> TRUE, v |-> x]

\* A linear combination: the coefficient of each wire it mentions.
Coef(lc, w) == IF w \in DOMAIN lc THEN lc[w] ELSE 0
LcZero == [w \in {} |-> 0]
LcVar(v) == [w \in {v} |-> 1]
LcAdd(a, b) == [w \in DOMAIN a \cup DOMAIN b |-> Add(Coef(a, w), Coef(b, w))]
LcScale(a, s) == [w \in DOMAIN a |-> Mul(a[w], s)]
LcAddConst(a, c) == LcAdd(a, [w \in {0} |-> c])

RECURSIVE DotOver(_, _, _)
DotOver(lc, wit, S) ==
    IF S = {} THEN 0
    ELSE LET w == CHOOSE x \in S : TRUE
         IN  Add(Mul(lc[w], wit[w]), DotOver(lc, wit, S \ {w}))

\* The value of a linear combination under an assignment of the wires.
Eval(lc, wit) == DotOver(lc, wit, DOMAIN lc)

GateL(c, g) == c.ncommit + 3 * (g - 1) + 1
GateR(c, g) == c.ncommit + 3 * (g - 1) + 2
GateO(c, g) == c.ncommit + 3 * (g - 1) + 3

\* The constraint system is the caller's.  Its allocate_single or the
\* non-zero gadget run on it may fail at their at-th call ("alloc",
\* "nonzero"), and the caller may have left a single allocation pending.
NoFault == [kind |-> "none", at |-> 0]
FaultChoices ==
    {NoFault, [kind |-> "pending", at |-> 0]} \cup
    [kind : {"alloc", "nonzero"}, at : 1 .. MaxFaultAt]

\* The operations of kind op recorded so far.
OpCount(c, op) == Cardinality({n \in 1 .. Len(c.ops) : c.ops[n].op = op})

\* A fresh constraint system over the committed variables: a Prover knows
\* their values, a Verifier has the commitments alone.
NewCS(role, committed) ==
    [role |-> role,
     ncommit |-> Len(committed),
     gates |-> 0,
     pending |-> 0,
     fault |-> NoFault,
     ops |-> <<>>,
     wit |-> [w \in 0 .. (IF role = "prover" THEN Len(committed) ELSE 0) |->
                IF w = 0 THEN 1 ELSE committed[w]]]

\* The assignment wit with wire w set to v.
Assign(wit, w, v) == [x \in DOMAIN wit \cup {w} |-> IF x = w THEN v ELSE wit[x]]

\* ConstraintSystem::evaluate_lc: the value under the witness, for a Prover.
evaluate_lc(c, lc) ==
    IF c.role = "prover" THEN Some(Eval(lc, c.wit)) ELSE None

\* ConstraintSystem::multiply: a new gate with left = lhs, right = rhs.
multiply(c, left, right) ==
    LET g == c.gates + 1 IN
    [cs |-> [c EXCEPT
                !.gates = g,
                !.ops = Append(@, [op |-> "multiply", gate |-> g,
                                   left |-> left, right |-> right]),
                !.wit = IF c.role = "prover"
                        THEN LET l == Eval(left, c.wit)
                                 r == Eval(right, c.wit)
                             IN  Assign(Assign(Assign(@, GateL(c, g), l),
                                               GateR(c, g), r),
                                        GateO(c, g), Mul(l, r))
                        ELSE @],
     left |-> GateL(c, g), right |-> GateR(c, g), out |-> GateO(c, g)]

\* ConstraintSystem::allocate_single: the left wire of a new gate, or the right
\* wire of the gate left pending (and then its output wire too).  A Prover
\* without the value fails with MissingAssignment.
allocate_single(c, val) ==
    IF \/ c.role = "prover" /\ ~val.some
       \/ c.fault.kind = "alloc" /\ OpCount(c, "allocate_single") + 1 = c.fault.at
    THEN [ok |-> FALSE, cs |-> c]
    ELSE IF c.pending = 0
    THEN LET g == c.gates + 1 IN
         [ok |-> TRUE,
          cs |-> [c EXCEPT !.gates = g, !.pending = g,
                           !.ops = Append(@, [op |-> "allocate_single",
                                              gate |-> g, side |-> "left"]),
                           !.wit = IF c.role = "prover"
                                   THEN Assign(@, GateL(c, g), val.v)
                                   ELSE @],
          var |-> GateL(c, g), out |-> None]
    ELSE LET g == c.pending IN
         [ok |-> TRUE,
          cs |-> [c EXCEPT !.pending = 0,
                           !.ops = Append(@, [op |-> "allocate_single",
                                              gate |-> g, side |-> "right"]),
                           !.wit = IF c.role = "prover"
                                   THEN Assign(Assign(@, GateR(c, g), val.v),
                                               GateO(c, g),
                                               Mul(c.wit[GateL(c, g)], val.v))
                                   ELSE @],
          var |-> GateR(c, g), out |-> Some(GateO(c, g))]

\* ConstraintSystem::constrain: lc = 0.
constrain(c, lc) ==
    [c EXCEPT !.ops = Append(@, [op |-> "constrain", lc |-> lc])]

\* r1cs_utils::constrain_lc_with_scalar: lc = scalar.
constrain_lc_with_scalar(c, lc, scalar) ==
    constrain(c, LcAddConst(lc, Sub(0, scalar)))

\* gadget_zero_nonzero::is_nonzero_gadget: x * x_inv = 1 through one gate,
\* or a failure.
is_nonzero_gadget(c, x, x_inv) ==
    LET m == multiply(c, LcVar(x.variable), LcVar(x_inv.variable))
    IN  IF c.fault.kind = "nonzero" /\ OpCount(c, "multiply") + 1 = c.fault.at
        THEN [ok |-> FALSE, cs |-> c]
        ELSE [ok |-> TRUE,
              cs |-> constrain(m.cs, LcAddConst(LcVar(m.out), Sub(0, 1)))]

\* Whether the assignment wit satisfies one recorded operation.
OpHolds(c, o, wit) ==
    IF o.op = "multiply"
    THEN /\ wit[GateL(c, o.gate)] = Eval(o.left, wit)
         /\ wit[GateR(c, o.gate)] = Eval(o.right, wit)
         /\ wit[GateO(c, o.gate)] = Mul(wit[GateL(c, o.gate)], wit[GateR(c, o.gate)])
    ELSE IF o.op = "allocate_single"
    THEN o.side = "right" =>
            wit[GateO(c, o.gate)] = Mul(wit[GateL(c, o.gate)], wit[GateR(c, o.gate)])
    ELSE Eval(o.lc, wit) = 0

\* Whether wit satisfies every constraint of c: what proof verification decides.
Satisfied(c, wit) == \A n \in 1 .. Len(c.ops) : OpHolds(c, c.ops[n], wit)

(***************************************************************************)
(* The circuit S-boxes.  The result is [st, cs, var]: st is "ok" with the  *)
(* returned wire, "err" for an R1CSError, "panic" for an abort.            *)
(* A dishonest Prover hands the constraint system values of its own        *)
(* choosing (w.forged) instead of the ones lines 128-131 compute.          *)
(***************************************************************************)
Honest == [forged |-> FALSE]
Forged(l, r) == [forged |-> TRUE, l |-> l, r |-> r]

\* The same, with the second gate multiplying the square by itself.
synthesize_cube_sbox_fourth(c, input_var, round_key) ==
    LET inp_plus_const == LcAddConst(input_var, round_key)
        m1 == multiply(c, inp_plus_const, inp_plus_const)
        m2 == multiply(m1.cs, LcVar(m1.out), LcVar(m1.out))
    IN  [st |-> "ok", cs |-> m2.cs, var |-> m2.out]

synthesize_cube_sbox(c, input_var, round_key) ==
    LET inp_plus_const == LcAddConst(input_var, round_key)
        m1 == multiply(c, inp_plus_const, inp_plus_const)
        m2 == multiply(m1.cs, LcVar(m1.out), LcVar(m1.left))
    IN  [st |-> "ok", cs |-> m2.cs, var |-> m2.out]

\* The same, giving up with MissingAssignment when the value is not known.
synthesize_inverse_sbox_needs_value(c, input_var, round_key, w) ==
    LET inp_plus_const == LcAddConst(input_var, round_key)
        val_l == IF w.forged THEN Some(w.l) ELSE evaluate_lc(c, inp_plus_const)
        val_r == IF w.forged THEN Some(w.r)
                 ELSE IF val_l.some THEN Some(Invert(val_l.v)) ELSE None
        a1 == allocate_single(c, val_l)
        a2 == allocate_single(a1.cs, val_r)
        nz == is_nonzero_gadget(a2.cs,
                                [variable |-> a1.var, assignment |-> val_l],
                                [variable |-> a2.var, assignment |-> val_r])
    IN  IF ~val_l.some THEN [st |-> "err", cs |-> c, var |-> 0]
        ELSE [st |-> "ok",
              cs |-> constrain_lc_with_scalar(nz.cs, LcVar(a2.out.v), 1),
              var |-> a2.var]

synthesize_inverse_sbox(c, input_var, round_key, w) ==
    LET inp_plus_const == LcAddConst(input_var, round_key)
        val_l == IF w.forged THEN Some(w.l) ELSE evaluate_lc(c, inp_plus_const)
        val_r == IF w.forged THEN Some(w.r)
                 ELSE IF val_l.some THEN Some(Invert(val_l.v)) ELSE None
        a1 == allocate_single(c, val_l)
        a2 == allocate_single(a1.cs, val_r)
        nz == is_nonzero_gadget(a2.cs,
                                [variable |-> a1.var, assignment |-> val_l],
                                [variable |-> a2.var, assignment |-> val_r])
    IN  IF ~a1.ok THEN [st |-> "err", cs |-> a1.cs, var |-> 0]
        ELSE IF ~a2.ok THEN [st |-> "err", cs |-> a2.cs, var |-> 0]
        ELSE IF ~nz.ok THEN [st |-> "err", cs |-> nz.cs, var |-> 0]
        ELSE IF ~a2.out.some THEN [st |-> "panic", cs |-> nz.cs, var |-> 0]
        ELSE [st |-> "ok",
              cs |-> constrain_lc_with_scalar(nz.cs, LcVar(a2.out.v), 1),
              var |-> a2.var]

synthesize_sbox(sbox, c, input_var, round_key, w) ==
    IF sbox = "Cube" THEN synthesize_cube_sbox(c, input_var, round_key)
    ELSE synthesize_inverse_sbox(c, input_var, round_key, w)

(***************************************************************************)
(* Poseidon_permutation, one step at a time.  n is the engine's state:     *)
(* pc (where it is), phase (which of the three loops), k (rounds done),    *)
(* i (position in the S-box layer), current_state, round_keys_offset, and  *)
(* two logs: the round keys read and the S-box applications.               *)
(***************************************************************************)
\* The loop the engine is in once k rounds are done.
PhaseAt(p, k) ==
    IF k < p.full_rounds_beginning THEN "full_begin"
    ELSE IF k < p.full_rounds_beginning + p.partial_rounds THEN "partial"
    ELSE IF k < p.full_rounds_beginning + p.partial_rounds + p.full_rounds_end
    THEN "full_end"
    ELSE "return"

EnterRound(p, k) == IF PhaseAt(p, k) = "return" THEN "return" ELSE "sbox_layer"

NativeIdle ==
    [pc |-> "idle", phase |-> "none", k |-> 0, i |-> 0, current_state |-> <<>>,
     round_keys_offset |-> 0, keyLog |-> <<>>, sboxLog |-> <<>>]

\* Lines 161-171.
NativeEnter(p, input) ==
    IF Len(input) # p.width
    THEN [NativeIdle EXCEPT !.pc = "panic", !.current_state = input]
    ELSE [NativeIdle EXCEPT !.pc = EnterRound(p, 0), !.phase = PhaseAt(p, 0),
                            !.current_state = input]

\* Lines 177-179 and 225-227: one position of a full round's S-box layer.
NativeFullSbox(p, sbox, n) ==
    IF n.round_keys_offset >= Len(p.round_keys) THEN [n EXCEPT !.pc = "index_panic"]
    ELSE
    LET keyed == Add(n.current_state[n.i + 1], p.round_keys[n.round_keys_offset + 1])
    IN  [n EXCEPT !.current_state[n.i + 1] = apply_sbox(sbox, keyed),
                  !.round_keys_offset = @ + 1,
                  !.keyLog = Append(@, [k |-> n.k, i |-> n.i,
                                        off |-> n.round_keys_offset]),
                  !.sboxLog = Append(@, [k |-> n.k, i |-> n.i, x |-> keyed,
                                         y |-> apply_sbox(sbox, keyed)]),
                  !.i = @ + 1,
                  !.pc = IF n.i + 1 = p.width THEN "linear_layer" ELSE "sbox_layer"]

\* Lines 199-200: one position of a partial round's key addition.
NativePartialKey(p, n) ==
    IF n.round_keys_offset >= Len(p.round_keys) THEN [n EXCEPT !.pc = "index_panic"]
    ELSE
    [n EXCEPT !.current_state[n.i + 1] =
                  Add(@, p.round_keys[n.round_keys_offset + 1]),
              !.round_keys_offset = @ + 1,
              !.keyLog = Append(@, [k |-> n.k, i |-> n.i,
                                    off |-> n.round_keys_offset]),
              !.i = @ + 1,
              !.pc = IF n.i + 1 = p.width THEN "partial_sbox" ELSE "sbox_layer"]

\* Line 205: the one S-box of a partial round.
NativePartialSbox(p, sbox, n) ==
    [n EXCEPT !.current_state[p.width] = apply_sbox(sbox, @),
              !.sboxLog = Append(@, [k |-> n.k, i |-> p.width - 1,
                                     x |-> n.current_state[p.width],
                                     y |-> apply_sbox(sbox, n.current_state[p.width])]),
              !.pc = "linear_layer"]

RECURSIVE MixTo(_, _, _, _)
MixTo(state, matrix, i, j) ==
    IF j = 0 THEN 0
    ELSE Add(MixTo(state, matrix, i, j - 1), Mul(state[j], matrix[i][j]))

\* Lines 183-193 (and 208-218, 231-241): the linear layer; the next round.
NativeLinear(p, n) ==
    [n EXCEPT !.current_state =
                  [i \in 1 .. p.width |-> MixTo(n.current_state, p.MDS_matrix, i, p.width)],
              !.k = @ + 1,
              !.i = 0,
              !.phase = PhaseAt(p, n.k + 1),
              !.pc = EnterRound(p, n.k + 1)]

\* Poseidon_hash_2, lines 252-259: the input it hands to the permutation.
Poseidon_hash_2_input(xl, xr) == <<0, xl, xr, 0, 0, 0>>
(***************************************************************************)
(* Poseidon_permutation_constraints, one step at a time.  e is the         *)
(* engine's state, as for the native engine, with input_vars and           *)
(* sbox_outputs (linear combinations) in place of current_state.           *)
(***************************************************************************)
CircIdle ==
    [pc |-> "idle", phase |-> "none", k |-> 0, i |-> 0, input_vars |-> <<>>,
     sbox_outputs |-> <<>>, round_keys_offset |-> 0, keyLog |-> <<>>,
     sboxLog |-> <<>>]

\* Lines 284-293: input is a sequence of AllocatedScalar.
CircEnter(p, c, input) ==
    IF Len(input) # p.width THEN [CircIdle EXCEPT !.pc = "panic"]
    ELSE [CircIdle EXCEPT
            !.pc = EnterRound(p, 0), !.phase = PhaseAt(p, 0),
            !.input_vars = [i \in 1 .. p.width |-> LcVar(input[i].variable)],
            !.sbox_outputs = [i \in 1 .. p.width |-> LcZero]]

\* The S-box branch of a position: lines 302-305, 331 and 336, 359-362.
CircSbox(p, sbox, e, c, w) ==
    LET round_key == p.round_keys[e.round_keys_offset + 1]
        r == synthesize_sbox(sbox, c, e.input_vars[e.i + 1], round_key, w)
    IN  IF r.st # "ok" THEN [circ |-> [e EXCEPT !.pc = r.st], cs |-> r.cs]
        ELSE [circ |->
                [e EXCEPT !.sbox_outputs[e.i + 1] = LcVar(r.var),
                          !.round_keys_offset = @ + 1,
                          !.keyLog = Append(@, [k |-> e.k, i |-> e.i,
                                                off |-> e.round_keys_offset]),
                          !.sboxLog = Append(@,
                              [k |-> e.k, i |-> e.i,
                               inp |-> LcAddConst(e.input_vars[e.i + 1], round_key),
                               var |-> r.var,
                               firstOp |-> Len(c.ops) + 1, lastOp |-> Len(r.cs.ops)]),
                          !.i = @ + 1,
                          !.pc = IF e.i + 1 = p.width THEN "linear_layer"
                                 ELSE "sbox_layer"],
              cs |-> r.cs]

\* The same without line 336: the cursor stays.
CircCarry_no_advance(p, e, c) ==
    LET round_key == p.round_keys[e.round_keys_offset + 1] IN
    [circ |->
        [e EXCEPT !.sbox_outputs[e.i + 1] =
                      LcAddConst(e.input_vars[e.i + 1], round_key),
                  !.keyLog = Append(@, [k |-> e.k, i |-> e.i,
                                        off |-> e.round_keys_offset]),
                  !.i = @ + 1,
                  !.pc = IF e.i + 1 = p.width THEN "linear_layer" ELSE "sbox_layer"],
     cs |-> c]

\* The other branch of a partial round's position: lines 333 and 336.
CircCarry(p, e, c) ==
    LET round_key == p.round_keys[e.round_keys_offset + 1] IN
    [circ |->
        [e EXCEPT !.sbox_outputs[e.i + 1] =
                      LcAddConst(e.input_vars[e.i + 1], round_key),
                  !.round_keys_offset = @ + 1,
                  !.keyLog = Append(@, [k |-> e.k, i |-> e.i,
                                        off |-> e.round_keys_offset]),
                  !.i = @ + 1,
                  !.pc = IF e.i + 1 = p.width THEN "linear_layer" ELSE "sbox_layer"],
     cs |-> c]

\* Lines 301-306 and 358-363: one position of a full round's S-box layer.
CircFullStep(p, sbox, e, c, w) ==
    IF e.round_keys_offset >= Len(p.round_keys)
    THEN [circ |-> [e EXCEPT !.pc = "index_panic"], cs |-> c]
    ELSE CircSbox(p, sbox, e, c, w)

\* The same with the first position chosen for the S-box (i == 0).
CircPartialStep_first(p, sbox, e, c, w) ==
    IF e.round_keys_offset >= Len(p.round_keys)
    THEN [circ |-> [e EXCEPT !.pc = "index_panic"], cs |-> c]
    ELSE IF e.i = 0 THEN CircSbox(p, sbox, e, c, w)
    ELSE CircCarry(p, e, c)

\* Lines 325-337: one position of a partial round's S-box layer.
CircPartialStep(p, sbox, e, c, w) ==
    IF e.round_keys_offset >= Len(p.round_keys)
    THEN [circ |-> [e EXCEPT !.pc = "index_panic"], cs |-> c]
    ELSE IF e.i = p.width - 1 THEN CircSbox(p, sbox, e, c, w)
    ELSE CircCarry(p, e, c)

RECURSIVE LinearTo(_, _, _, _, _)
LinearTo(sbox_outs, next_i, matrix, i, j) ==
    IF j = 0 THEN next_i
    ELSE LcAdd(LinearTo(sbox_outs, next_i, matrix, i, j - 1),
               LcScale(sbox_outs[j], matrix[i][j]))

\* The same with the matrix read as MDS_matrix[j][i].
apply_linear_layer_transposed(width, sbox_outs, next_inputs, MDS_matrix) ==
    [i \in 1 .. width |->
        LinearTo(sbox_outs, next_inputs[i],
                 [a \in 1 .. width |-> [b \in 1 .. width |-> MDS_matrix[b][a]]],
                 i, width)]

\* Lines 265-276.
apply_linear_layer(width, sbox_outs, next_inputs, MDS_matrix) ==
    [i \in 1 .. width |-> LinearTo(sbox_outs, next_inputs[i], MDS_matrix, i, width)]

\* Lines 308-314 (and 341-347, 367-373): the linear layer; the next round.
CircLinear(p, e) ==
    [e EXCEPT !.input_vars =
                  apply_linear_layer(p.width, e.sbox_outputs,
                                     [i \in 1 .. p.width |-> LcZero],
                                     p.MDS_matrix),
              !.sbox_outputs = [i \in 1 .. p.width |-> LcZero],
              !.k = @ + 1,
              !.i = 0,
              !.phase = PhaseAt(p, e.k + 1),
              !.pc = EnterRound(p, e.k + 1)]

\* Poseidon_hash_2_constraints, lines 409-421: the input it hands on, or a
\* panic (the assertion, or zeros[0] of an empty vector).
Poseidon_hash_2_constraints_input(p, xl, xr, zeros) ==
    IF Len(zeros) # p.width - 2 \/ Len(zeros) = 0 THEN [ok |-> FALSE]
    ELSE [ok |-> TRUE,
          val |-> <<zeros[1], xl, xr>> \o SubSeq(zeros, 2, Len(zeros))]
(***************************************************************************)
(* The gadgets' last step.                                                 *)
(***************************************************************************)
\* Poseidon_permutation_gadget, lines 394-396.
RECURSIVE ConstrainOutputs(_, _, _, _)
ConstrainOutputs(c, permutation_output, output, n) ==
    IF n = 0 THEN c
    ELSE constrain_lc_with_scalar(
             ConstrainOutputs(c, permutation_output, output, n - 1),
             permutation_output[n], output[n])

\* What the gadget called does once the permutation's constraints are there
\* (lines 394-398, or 423 and 438-440), and the combinations it constrained.
GadgetFinish(call, p, c, permutation_output, output) ==
    IF call = "perm"
    THEN [cs |-> ConstrainOutputs(c, permutation_output, output, p.width),
          out |-> permutation_output]
    ELSE [cs |-> constrain_lc_with_scalar(c, permutation_output[2], output[1]),
          out |-> <<permutation_output[2]>>]

(***************************************************************************)
(* The harness (tests::poseidon_perm, tests::poseidon_hash) and its inputs.*)
(***************************************************************************)
Min(a, b) == IF a < b THEN a ELSE b

\* Sample inputs of the permutation: width elements from two parameters.
InputOf(width, a, b) == [i \in 1 .. width |-> (a + b * i) % P]
InputSteps == {0, 3}

\* The claimed output: the expected one, or that with one position changed.
Altered(expected, pos) ==
    [i \in 1 .. Len(expected) |->
        IF i = pos THEN Add(expected[i], 1) ELSE expected[i]]

AlterChoices(expected) == {0, 1, Len(expected)}

\* The values the harness commits to, in order: lines 479-486, 544-565.
Committed(s, p) ==
    IF s.call = "perm" THEN s.input
    ELSE <<s.xl, s.xr>> \o [i \in 1 .. p.width - 2 |-> 0]

\* The AllocatedScalar of committed variable v.
Alloc(role, s, p, v) ==
    [variable |-> v,
     assignment |-> IF role = "prover" THEN Some(Committed(s, p)[v]) ELSE None]

\* The gadget's permutation input: the variables as committed, or as
\* Poseidon_hash_2_constraints orders them.
GadgetInput(role, s, p) ==
    IF s.call = "perm"
    THEN [ok |-> TRUE, val |-> [v \in 1 .. p.width |-> Alloc(role, s, p, v)]]
    ELSE Poseidon_hash_2_constraints_input(
             p, Alloc(role, s, p, 1), Alloc(role, s, p, 2),
             [z \in 1 .. p.width - 2 |-> Alloc(role, s, p, z + 2)])

\* The witnesses the Prover may give one Inverse S-box.
WitnessChoices(role, sbox) ==
    {Honest} \cup
    (IF role = "prover" /\ sbox = "Inverse" /\ forge.used < forge.budget
     THEN {Forged(l, r) : l \in F, r \in F} ELSE {})

TablesChoices ==
    {MakeTables(seed, len, rows, shortRow) :
        seed \in Seeds, len \in RoundConstLens, rows \in TableWidths,
        shortRow \in ShortRows}

ArgsChoices ==
    [width : ArgWidths,
     full_rounds_beginning : 0 .. MaxFullBeginning,
     full_rounds_end : 0 .. MaxFullEnd,
     partial_rounds : 0 .. MaxPartial]

NoScenario ==
    [call |-> "none", sbox_type |-> "none", input |-> <<>>, xl |-> 0, xr |-> 0,
     expected |-> <<>>, alter |-> 0, output |-> <<>>]

\* The dishonest Prover is explored on well-formed tables and short schedules.
AdvTablesChoices ==
    {MakeTables(0, 6 * (MaxFullBeginning + MaxPartial + MaxFullEnd), rows, 0) :
        rows \in TableWidths}

AdvArgsChoices ==
    {a \in ArgsChoices :
        a.full_rounds_beginning + a.partial_rounds + a.full_rounds_end <= AdvMaxRounds}

InitCommon ==
    /\ params = Panicked
    /\ pc = "new"
    /\ scn = NoScenario
    /\ nat = NativeIdle
    /\ circ = CircIdle
    /\ cs = NewCS("none", <<>>)
    /\ runs = <<>>

\* The repository's code on both sides.
Init ==
    /\ tables \in TablesChoices
    /\ args \in ArgsChoices
    /\ InitCommon
    /\ forge = [budget |-> 0, used |-> 0]
    /\ fault = NoFault

\* The same with a Prover that may choose MaxForge S-box witnesses freely.
InitAdv ==
    /\ tables \in AdvTablesChoices
    /\ args \in AdvArgsChoices
    /\ args.width = Len(tables.MDS_ENTRIES)
    /\ InitCommon
    /\ forge = [budget |-> MaxForge, used |-> 0]
    /\ fault = NoFault

\* The honest code on a constraint system that may fail or that the caller
\* has already used, on well-formed tables and short schedules.
InitFault ==
    /\ tables \in AdvTablesChoices
    /\ args \in AdvArgsChoices
    /\ args.width = Len(tables.MDS_ENTRIES)
    /\ InitCommon
    /\ forge = [budget |-> 0, used |-> 0]
    /\ fault \in FaultChoices

(***************************************************************************)
(* Actions.                                                                *)
(***************************************************************************)
\* PoseidonParams::new(width, full_b, full_e, partial_rounds).
New ==
    /\ pc = "new"
    /\ params' = PoseidonParams_new(tables, args.width, args.full_rounds_beginning,
                                    args.full_rounds_end, args.partial_rounds)
    /\ pc' = IF params'.ok THEN "start" ELSE "panic"
    /\ UNCHANGED <<fault, tables, args, scn, nat, circ, cs, runs, forge>>

\* Poseidon_permutation(&input, ..) or Poseidon_hash_2(xl, xr, ..) is called.
NativeCall ==
    /\ pc = "start"
    /\ \E call \in {"perm", "hash"}, sbox \in SboxType,
          a \in 0 .. MaxInput, b \in InputSteps :
          /\ scn' = [NoScenario EXCEPT !.call = call, !.sbox_type = sbox,
                        !.input = IF call = "perm" THEN InputOf(params.width, a, b)
                                  ELSE Poseidon_hash_2_input(a, b),
                        !.xl = IF call = "hash" THEN a ELSE 0,
                        !.xr = IF call = "hash" THEN b ELSE 0]
          /\ nat' = NativeEnter(params, scn'.input)
    /\ pc' = "native"
    /\ UNCHANGED <<fault, tables, args, params, circ, cs, runs, forge>>

NativeFullRoundSbox ==
    /\ pc = "native" /\ nat.pc = "sbox_layer"
    /\ nat.phase \in {"full_begin", "full_end"}
    /\ nat' = NativeFullSbox(params, scn.sbox_type, nat)
    /\ UNCHANGED <<fault, tables, args, params, pc, scn, circ, cs, runs, forge>>

NativePartialRoundKey ==
    /\ pc = "native" /\ nat.pc = "sbox_layer" /\ nat.phase = "partial"
    /\ nat' = NativePartialKey(params, nat)
    /\ UNCHANGED <<fault, tables, args, params, pc, scn, circ, cs, runs, forge>>

NativePartialRoundSbox ==
    /\ pc = "native" /\ nat.pc = "partial_sbox"
    /\ nat' = NativePartialSbox(params, scn.sbox_type, nat)
    /\ UNCHANGED <<fault, tables, args, params, pc, scn, circ, cs, runs, forge>>

NativeLinearLayer ==
    /\ pc = "native" /\ nat.pc = "linear_layer"
    /\ nat' = NativeLinear(params, nat)
    /\ UNCHANGED <<fault, tables, args, params, pc, scn, circ, cs, runs, forge>>

\* Line 245, and line 262 for the hash: the result becomes expected_output.
NativeReturn ==
    /\ pc = "native" /\ nat.pc = "return"
    /\ nat' = [nat EXCEPT !.pc = "done"]
    /\ scn' = [scn EXCEPT !.expected = IF scn.call = "perm" THEN nat.current_state
                                       ELSE <<nat.current_state[2]>>]
    /\ pc' = "prove"
    /\ UNCHANGED <<fault, tables, args, params, circ, cs, runs, forge>>

\* The constraint system the caller hands to the gadget: the committed
\* variables, and one single allocation of its own if it left one pending.
CallerCS(role, committed, f) ==
    LET c == NewCS(role, committed) IN
    IF f.kind = "pending"
    THEN allocate_single(c, IF role = "prover" THEN Some(0) ELSE None).cs
    ELSE [c EXCEPT !.fault = f]

\* The gadget is entered with a fresh constraint system: lines 389-392 and
\* 284-293, or 436 and 409-422.
GadgetEnter(role, s) ==
    LET c == CallerCS(role, Committed(s, params), fault)
        input == GadgetInput(role, s, params)
    IN  /\ cs' = c
        /\ circ' = IF Len(s.output) # Len(s.expected) \/ ~input.ok
                   THEN [CircIdle EXCEPT !.pc = "panic"]
                   ELSE CircEnter(params, c, input.val)

\* The Prover's call, with the output it claims.
ProverCall ==
    /\ pc = "prove"
    /\ \E pos \in AlterChoices(scn.expected) :
          /\ scn' = [scn EXCEPT !.alter = pos,
                                !.output = Altered(scn.expected, pos)]
          /\ GadgetEnter("prover", scn')
    /\ pc' = "proving"
    /\ UNCHANGED <<fault, tables, args, params, nat, runs, forge>>

\* The Verifier's call, with the same claimed output.
VerifierCall ==
    /\ pc = "verify"
    /\ GadgetEnter("verifier", scn)
    /\ pc' = "verifying"
    /\ UNCHANGED <<fault, tables, args, params, scn, nat, runs, forge>>

CircFullRoundSbox ==
    /\ pc \in {"proving", "verifying"} /\ circ.pc = "sbox_layer"
    /\ circ.phase \in {"full_begin", "full_end"}
    /\ \E w \in WitnessChoices(cs.role, scn.sbox_type) :
          LET r == CircFullStep(params, scn.sbox_type, circ, cs, w) IN
          /\ circ' = r.circ
          /\ cs' = r.cs
          /\ forge' = IF w.forged THEN [forge EXCEPT !.used = @ + 1] ELSE forge
    /\ UNCHANGED <<fault, tables, args, params, pc, scn, nat, runs>>

CircPartialRoundStep ==
    /\ pc \in {"proving", "verifying"} /\ circ.pc = "sbox_layer"
    /\ circ.phase = "partial"
    /\ \E w \in IF circ.i = params.width - 1
                THEN WitnessChoices(cs.role, scn.sbox_type) ELSE {Honest} :
          LET r == CircPartialStep(params, scn.sbox_type, circ, cs, w) IN
          /\ circ' = r.circ
          /\ cs' = r.cs
          /\ forge' = IF w.forged THEN [forge EXCEPT !.used = @ + 1] ELSE forge
    /\ UNCHANGED <<fault, tables, args, params, pc, scn, nat, runs>>

CircLinearLayer ==
    /\ pc \in {"proving", "verifying"} /\ circ.pc = "linear_layer"
    /\ circ' = CircLinear(params, circ)
    /\ UNCHANGED <<fault, tables, args, params, pc, scn, nat, cs, runs, forge>>

\* The gadget returns: Ok(()) after the output constraints, or the error.
GadgetReturn ==
    /\ pc \in {"proving", "verifying"} /\ circ.pc \in {"return", "err"}
    /\ LET fin == IF circ.pc = "return"
                  THEN GadgetFinish(scn.call, params, cs, circ.input_vars, scn.output)
                  ELSE [cs |-> cs, out |-> <<>>]
       IN  /\ cs' = fin.cs
           /\ runs' = Append(runs, [role |-> cs.role,
                                    result |-> IF circ.pc = "return" THEN "ok" ELSE "err",
                                    cs |-> fin.cs,
                                    opsBefore |-> Len(cs.ops),
                                    out |-> fin.out,
                                    sboxLog |-> circ.sboxLog,
                                    forged |-> forge.used])
    /\ circ' = [circ EXCEPT !.pc = "done"]
    /\ pc' = IF pc = "proving" THEN "verify" ELSE "done"
    /\ UNCHANGED <<fault, tables, args, params, scn, nat, forge>>

Next ==
    \/ New
    \/ NativeCall
    \/ NativeFullRoundSbox
    \/ NativePartialRoundKey
    \/ NativePartialRoundSbox
    \/ NativeLinearLayer
    \/ NativeReturn
    \/ ProverCall
    \/ VerifierCall
    \/ CircFullRoundSbox
    \/ CircPartialRoundStep
    \/ CircLinearLayer
    \/ GadgetReturn

Spec == Init /\ [][Next]_vars
SpecAdv == InitAdv /\ [][Next]_vars
SpecFault == InitFault /\ [][Next]_vars
(***************************************************************************)
(* Properties.                                                             *)
(***************************************************************************)
ProverDone == Len(runs) >= 1
BothDone == Len(runs) = 2

\* Proof verification: the Prover's assignment against the Verifier's system.
Verified == Satisfied(runs[2].cs, runs[1].cs.wit)

\* C1: the combinations Poseidon_permutation_constraints returns, evaluated
\* under the honest Prover's witness for the input, are position by position
\* the state Poseidon_permutation returns, for both S-boxes.
CircuitEvaluatesToNative ==
    (ProverDone /\ scn.call = "perm" /\ runs[1].result = "ok" /\ runs[1].forged = 0)
    => /\ Len(runs[1].out) = params.width
       /\ \A i \in 1 .. params.width :
              Eval(runs[1].out[i], runs[1].cs.wit) = scn.expected[i]

CircuitEvaluatesToNativeWitness ==
    /\ ProverDone /\ scn.call = "perm" /\ runs[1].result = "ok"
    /\ scn.sbox_type = "Inverse" /\ params.width = 4 /\ TotalRounds(params) = 4
    /\ scn.expected # scn.input

\* C3: the operations the circuit engine emits (gates, single-wire
\* allocations, constraints, and the wires each refers to) are the same for
\* the Prover, who has the input values, and the Verifier, who has not.
SameTopologyForBothRoles ==
    BothDone =>
        /\ runs[1].cs.ops = runs[2].cs.ops
        /\ runs[1].cs.gates = runs[2].cs.gates
        /\ runs[1].result = runs[2].result
        /\ runs[1].out = runs[2].out

SameTopologyForBothRolesWitness ==
    /\ BothDone /\ scn.sbox_type = "Inverse" /\ runs[2].result = "ok"
    /\ runs[2].cs.gates >= 4 /\ params.partial_rounds > 0

NewMustPanic ==
    \/ Len(tables.MDS_ENTRIES) # args.width
    \/ \E i \in 1 .. Len(tables.MDS_ENTRIES) : Len(tables.MDS_ENTRIES[i]) # args.width
    \/ Len(tables.ROUND_CONSTS) <
           (args.full_rounds_beginning + args.partial_rounds + args.full_rounds_end)
               * args.width

KeyLogInOrder(p, log) ==
    \A n \in 1 .. Len(log) :
        /\ log[n].off = n - 1
        /\ log[n].off = log[n].k * p.width + log[n].i
        /\ log[n].i < p.width
        /\ log[n].off < TotalRounds(p) * p.width

\* C9: in both engines the cursor starts at 0 and every read advances it by
\* one, width reads a round, through all three phases: the n-th read is of
\* round_keys[n - 1], for position i of round k with k * width + i = n - 1,
\* below total_rounds * width; after the last round it is total_rounds * width.
CursorRunsThroughKeys ==
    params.ok =>
        /\ KeyLogInOrder(params, nat.keyLog)
        /\ KeyLogInOrder(params, circ.keyLog)
        /\ nat.round_keys_offset = Len(nat.keyLog)
        /\ circ.round_keys_offset = Len(circ.keyLog)
        /\ nat.pc # "index_panic" /\ circ.pc # "index_panic"
        /\ nat.pc \in {"return", "done"} =>
               nat.round_keys_offset = TotalRounds(params) * params.width
        /\ circ.pc \in {"return", "done"} =>
               circ.round_keys_offset = TotalRounds(params) * params.width

CursorRunsThroughKeysWitness ==
    /\ nat.pc = "done" /\ circ.pc = "done"
    /\ params.full_rounds_beginning = 1 /\ params.partial_rounds = 2
    /\ params.full_rounds_end = 1
    /\ circ.round_keys_offset = 4 * params.width
    /\ nat.round_keys_offset = 4 * params.width

Max(a, b) == IF a > b THEN a ELSE b

\* The S-box applications of the first k rounds.
SboxesBefore(p, k) ==
    p.width * Min(k, p.full_rounds_beginning)
    + Min(Max(k - p.full_rounds_beginning, 0), p.partial_rounds)
    + p.width * Max(k - p.full_rounds_beginning - p.partial_rounds, 0)

SboxLogInOrder(p, log, keyLog) ==
    \A n \in 1 .. Len(log) :
        IF PhaseAt(p, log[n].k) = "partial"
        THEN /\ log[n].i = p.width - 1
             /\ n = SboxesBefore(p, log[n].k) + 1
             /\ Len(keyLog) >= (log[n].k + 1) * p.width
        ELSE n = SboxesBefore(p, log[n].k) + log[n].i + 1

SboxesSoFar(p, e) ==
    SboxesBefore(p, e.k)
    + (IF e.pc \in {"sbox_layer", "partial_sbox", "linear_layer"}
       THEN IF e.phase = "partial"
            THEN (IF e.pc = "linear_layer" THEN 1 ELSE 0)
            ELSE e.i
       ELSE 0)

\* C10: a partial round applies the S-box to position width - 1 alone, once
\* its round key is added; the circuit's other positions carry
\* combination + round_key and emit nothing, as does the mixing step, so the
\* S-box circuit is invoked width * (full rounds) + partial_rounds times.
PartialRoundsUseLastPosition ==
    params.ok =>
        /\ SboxLogInOrder(params, nat.sboxLog, nat.keyLog)
        /\ SboxLogInOrder(params, circ.sboxLog, circ.keyLog)
        /\ nat.pc \in {"sbox_layer", "partial_sbox", "linear_layer", "return", "done"}
               => Len(nat.sboxLog) = SboxesSoFar(params, nat)
        /\ circ.pc \in {"sbox_layer", "linear_layer", "return"} =>
              /\ Len(circ.sboxLog) = SboxesSoFar(params, circ)
              /\ \A n \in 1 .. Len(circ.sboxLog) :
                     circ.sboxLog[n].firstOp =
                         (IF n = 1 THEN 1 ELSE circ.sboxLog[n - 1].lastOp + 1)
              /\ Len(cs.ops) = (IF circ.sboxLog = <<>> THEN 0
                                ELSE circ.sboxLog[Len(circ.sboxLog)].lastOp)
        /\ (circ.pc \in {"sbox_layer", "linear_layer"} /\ circ.phase = "partial") =>
               \A j \in 1 .. Min(circ.i, params.width - 1) :
                   circ.sbox_outputs[j] =
                       LcAddConst(circ.input_vars[j],
                                  params.round_keys[circ.k * params.width + j])
        /\ circ.pc = "return" => Len(circ.sboxLog) = SboxCount(params)

PartialRoundsUseLastPositionWitness ==
    /\ circ.pc = "return" /\ nat.pc = "done"
    /\ params.width = 4 /\ params.partial_rounds = 2
    /\ params.full_rounds_beginning = 1 /\ params.full_rounds_end = 1
    /\ Len(circ.sboxLog) = 10 /\ Len(nat.sboxLog) = 10

\* C6: the native Inverse S-box returns no value for 0, and for every other
\* x a value y with y * x = 1.
InverseSboxRejectsZero ==
    scn.sbox_type = "Inverse" =>
        \A n \in 1 .. Len(nat.sboxLog) :
            /\ nat.sboxLog[n].x # 0
            /\ Mul(nat.sboxLog[n].y, nat.sboxLog[n].x) = 1

HashPadding(p, s) ==
    [i \in 1 .. p.width |-> IF i = 2 THEN s.xl ELSE IF i = 3 THEN s.xr ELSE 0]

\* C4: for every width >= 4 the native and the circuit hash hand their
\* permutation width elements, 0 at position 0, xl and xr at positions 1
\* and 2, 0 elsewhere, and return the permutation's position-1 output.
HashPadsToWidth ==
    (scn.call = "hash" /\ params.width >= 4) =>
        /\ scn.input = HashPadding(params, scn)
        /\ nat.pc # "panic"
        /\ nat.pc = "done" => scn.expected = <<nat.current_state[2]>>
        /\ (circ.pc = "sbox_layer" /\ circ.k = 0) =>
               \A j \in 1 .. params.width :
                   \E v \in 1 .. params.width :
                       /\ circ.input_vars[j] = LcVar(v)
                       /\ Committed(scn, params)[v] = HashPadding(params, scn)[j]
        /\ ProverDone =>
               runs[1].cs.ops[Len(runs[1].cs.ops)].op = "constrain"

\* C7: Poseidon_permutation_gadget adds width constraints, the i-th binding
\* the i-th final combination to output[i]; so with the honest witness the
\* proof verifies exactly when output is the native permutation of the input.
PermGadgetBindsOutput ==
    (BothDone /\ scn.call = "perm" /\ runs[1].result = "ok" /\ runs[2].result = "ok") =>
        /\ \A r \in 1 .. 2 :
              /\ Len(runs[r].cs.ops) = runs[r].opsBefore + params.width
              /\ \A i \in 1 .. params.width :
                     runs[r].cs.ops[runs[r].opsBefore + i] =
                         [op |-> "constrain",
                          lc |-> LcAddConst(runs[r].out[i], Sub(0, scn.output[i]))]
        /\ Verified <=> (scn.output = scn.expected)

NoZeroSboxInput == \A n \in 1 .. Len(nat.sboxLog) : nat.sboxLog[n].x # 0

\* C2: with the padding committed to zero, the proof for Poseidon_hash_2_gadget
\* verifies for the honest witness when the claimed output is the native hash,
\* and for no witness when it is any other value.
HashGadgetSound ==
    (BothDone /\ scn.call = "hash" /\ runs[1].result = "ok" /\ runs[2].result = "ok") =>
        /\ (scn.output = scn.expected /\ runs[1].forged = 0 /\ NoZeroSboxInput)
               => Verified
        /\ scn.output # scn.expected => ~Verified

SboxOpsHold(c, e) == \A m \in e.firstOp .. e.lastOp : OpHolds(c, c.ops[m], c.wit)

\* C8: in every assignment that satisfies the constraints of one Inverse
\* S-box circuit, the returned wire is the inverse of input + round_key.
InverseWireInvertsInput ==
    (cs.role = "prover" /\ scn.sbox_type = "Inverse") =>
        \A n \in 1 .. Len(circ.sboxLog) :
            SboxOpsHold(cs, circ.sboxLog[n]) =>
                Mul(cs.wit[circ.sboxLog[n].var], Eval(circ.sboxLog[n].inp, cs.wit)) = 1

\* x * x * x, as line 89 computes it.
CubeOf(x) == Mul(Mul(x, x), x)

\* The assignment wit with the three wires of gate g set to l, r and o.
SetGate(c, wit, g, l, r, o) ==
    Assign(Assign(Assign(wit, GateL(c, g), l), GateR(c, g), r), GateO(c, g), o)

\* Every assignment of the two gates' wires that satisfies the two operations
\* o1, o2 of the S-box circuit e gives the returned wire the cube of the
\* shifted input.  o1 mentions no wire of the second gate, so the assignments
\* of the first gate are filtered before those of the second are drawn.
CubeGatesForceCube(c, e, o1, o2) ==
    \A l1 \in F, r1 \in F, p1 \in F :
        LET w1 == SetGate(c, c.wit, o1.gate, l1, r1, p1) IN
        OpHolds(c, o1, w1) =>
            \A l2 \in F, r2 \in F, p2 \in F :
                LET w2 == SetGate(c, w1, o2.gate, l2, r2, p2) IN
                OpHolds(c, o2, w2) => w2[e.var] = CubeOf(Eval(e.inp, w2))

\* C11: the Cube S-box circuit emits two multiplication gates and nothing
\* else; every assignment satisfying them gives the returned wire the value
\* (input combination + round_key)^3, the native x * x * x of the shifted
\* input, which is 0 for 0; the native Cube evaluation never fails.
CubeSboxCubesInput ==
    (params.ok /\ scn.sbox_type = "Cube") =>
        /\ \A n \in 1 .. Len(nat.sboxLog) :
              /\ nat.sboxLog[n].y = CubeOf(nat.sboxLog[n].x)
              /\ nat.sboxLog[n].x = 0 => nat.sboxLog[n].y = 0
        /\ circ.pc \notin {"err", "panic"}
        /\ cs.pending = 0
        /\ cs.gates = 2 * Len(circ.sboxLog) \/ circ.sboxLog = <<>>
        /\ \A n \in 1 .. Len(circ.sboxLog) :
              LET e == circ.sboxLog[n]
                  o1 == cs.ops[e.firstOp]
                  o2 == cs.ops[e.lastOp]
              IN  /\ e.lastOp = e.firstOp + 1
                  /\ o1.op = "multiply" /\ o2.op = "multiply"
                  /\ o1.gate = 2 * n - 1 /\ o2.gate = 2 * n
                  /\ e.var = GateO(cs, o2.gate)
                  /\ cs.role = "prover" => cs.wit[e.var] = CubeOf(Eval(e.inp, cs.wit))
        /\ (cs.role = "prover" /\ circ.sboxLog # <<>>) =>
              LET e == circ.sboxLog[Len(circ.sboxLog)]
              IN  (Len(cs.ops) = e.lastOp /\ e.k = circ.k /\ e.i = circ.i - 1) =>
                      CubeGatesForceCube(cs, e, cs.ops[e.firstOp], cs.ops[e.lastOp])

CubeSboxCubesInputWitness ==
    /\ params.ok /\ scn.sbox_type = "Cube" /\ cs.role = "prover"
    /\ circ.sboxLog # <<>>
    /\ LET e == circ.sboxLog[Len(circ.sboxLog)]
       IN  Eval(e.inp, cs.wit) = 0 /\ cs.wit[e.var] = 0
    /\ \E n \in 1 .. Len(nat.sboxLog) : nat.sboxLog[n].x = 0 /\ nat.sboxLog[n].y = 0

\* A run that ended in an error stopped where the failure happened: at most
\* the two allocations of the failed S-box follow the finished S-box
\* circuits, and no output equality constraint was added.  A run on a
\* constraint system without failures ends Ok(()), whether or not the
\* claimed output satisfies the equality constraints.
FailedRunsStop ==
    \A r \in 1 .. Len(runs) :
        /\ runs[r].result = "err" =>
              /\ fault.kind \in {"alloc", "nonzero"} /\ scn.sbox_type = "Inverse"
              /\ Len(runs[r].cs.ops) = runs[r].opsBefore
              /\ runs[r].out = <<>>
              /\ Len(runs[r].sboxLog) < SboxCount(params)
              /\ OpCount(runs[r].cs, "multiply") = Len(runs[r].sboxLog)
              /\ OpCount(runs[r].cs, "constrain") = 2 * Len(runs[r].sboxLog)
              /\ OpCount(runs[r].cs, "allocate_single") <= 2 * Len(runs[r].sboxLog) + 2
        /\ fault.kind \in {"none", "pending"} => runs[r].result = "ok"

\* C12: every failure while the circuit is emitted reaches the gadget's
\* caller as an error value and never aborts; once it has happened no
\* further gate and no output equality constraint is added; an equality
\* constraint the witness does not satisfy is no error at construction time.
EmissionFailuresAreErrors ==
    params.ok =>
        /\ circ.pc \notin {"panic", "index_panic"}
        /\ circ.pc = "err" =>
               fault.kind \in {"alloc", "nonzero"} /\ scn.sbox_type = "Inverse"
        /\ FailedRunsStop
====
